---- MODULE Spec2Model ----
(***************************************************************************)
(* Model of the SCJingleConverter main window                              *)
(* (Jingle/SCJingleConverter/mainwindow.cpp): the ordered set of           *)
(* Compositions, the list widget that mirrors it, and the download-and-    *)
(* play handshake over the serial transport.                               *)
(*                                                                         *)
(* The handlers run on the single GUI thread.  Every handler but           *)
(* on_playJinglePushButton_clicked is one action.  The play handler blocks *)
(* on the transport (open, send, download) and on modal message boxes, so  *)
(* it is split at each transport call; no other handler runs while it is   *)
(* in progress (pc # "idle").                                              *)
(*                                                                         *)
(* Composition and SCSerial are declared in composition.h and scserial.h,  *)
(* which are not part of the given source: their operations are modelled   *)
(* from the specification and say so.                                      *)
(***************************************************************************)
EXTENDS Integers, Sequences, FiniteSets, TLC

VARIABLES
    compositions,  \* MainWindow::compositions, std::vector<Composition>
    labels,        \* items of ui->jingleListWidget, in row order
    currentRow,    \* ui->jingleListWidget->currentRow(), -1 when none
    memUsageLabel, \* bytes shown by ui->memUsageCurrBytesLabel
    pc,            \* position inside on_playJinglePushButton_clicked
    portHeld,      \* the serial port is held by the handler's SCSerial
    num_bytes,     \* local num_bytes of the play handler (line 111)
    lastOp,        \* the latest handler invoked and the current row it found
    popup,         \* message box shown by the latest handler, "" for none
    sent           \* what the latest handler handed to the transport, in order

vars == <<compositions, labels, currentRow, memUsageLabel, pc, portHeld,
          num_bytes, lastOp, popup, sent>>

----------------------------------------------------------------------------
(* Composition (composition.h, not in the source tree)                     *)

\* Composition::MAX_NUM_COMPS; a small stand-in for the device's value.
MAX_NUM_COMPS == 2

\* Composition::EEPROM_HDR_NUM_BYTES and MAX_EEPROM_BYTES, with the values of
\* the specification's capacity scenario.
EEPROM_HDR_NUM_BYTES == 10

MAX_EEPROM_BYTES == 1000

\* The musicXML files the user can name in musicXmlPathLineEdit: id -> the
\* characters of the path.  "x" is not a readable musicXML file.
FileIds == {"a", "b", "x"}

PathChars(f) ==
    CASE f = "a" -> <<"d", "/", "a", ".", "m", "u", "s", "i", "c", "x", "m", "l">>
      [] f = "b" -> <<"c", ":", "\\", "b", ".", "m", "u", "s", "i", "c", "x", "m", "l">>
      [] OTHER   -> <<"x">>

\* Serialized bytes of each measure of a parsed file: all of "a" fills the
\* EEPROM exactly, "b" is the specification's 995-byte scenario.
MeasBytes(f) ==
    CASE f = "a" -> <<495, 495>>
      [] f = "b" -> <<995>>
      [] OTHER   -> <<>>

\* Composition::parse(): NO_ERROR for a readable score, an error otherwise.
parse(f) == IF Len(MeasBytes(f)) > 0 THEN "NO_ERROR" ELSE "PARSE_ERROR"

\* Composition::Channel.
Channels == {"LEFT", "RIGHT"}

\* Composition::getNoVoiceStr(): the "no voice selected" sentinel.
getNoVoiceStr == "None"

\* The voices parsed from a file; each measure of a voice of these scores
\* holds one chord, serialized in the measure's bytes.
VoiceStrs(f) == IF Len(MeasBytes(f)) > 0 THEN <<"v1">> ELSE <<>>

\* The tempo of a parsed score and the neutral octave adjustment (in
\* hundredths: octaveAdjust is a float shown with two decimals).
ScoreBpm == 120

NoOctaveAdjust == 100

\* Composition(filename) followed by a successful parse(): the whole score is
\* the export window, the first voice feeds the left channel.
Composition(f) ==
    [filename |-> f, measStartIdx |-> 0, measEndIdx |-> Len(MeasBytes(f)) - 1,
     voice |-> [LEFT |-> IF Len(VoiceStrs(f)) > 0 THEN VoiceStrs(f)[1] ELSE getNoVoiceStr,
                RIGHT |-> getNoVoiceStr],
     chordIdx |-> [LEFT |-> 0, RIGHT |-> 0],
     bpm |-> ScoreBpm, octaveAdjust |-> NoOctaveAdjust]

getNumMeasures(c) == Len(MeasBytes(c.filename))

\* Composition::getVoiceStrs().
getVoiceStrs(c) == VoiceStrs(c.filename)

isVoice(c, voiceStr) == \E k \in 1..Len(getVoiceStrs(c)) : getVoiceStrs(c)[k] = voiceStr

\* Composition::getNumChords(voice, start, end): chords of the voice in the
\* measures start..end (one per measure here).
getNumChords(c, voiceStr, measStartIdx, measEndIdx) ==
    IF isVoice(c, voiceStr) /\ measEndIdx >= measStartIdx
    THEN measEndIdx - measStartIdx + 1
    ELSE 0

RECURSIVE SumBytes(_, _, _)
SumBytes(bytes, from, to) ==
    IF from > to THEN 0 ELSE bytes[from + 1] + SumBytes(bytes, from + 1, to)

\* Bytes a channel exports: the chords of its voice in the export window, from
\* the channel's chord offset on; nothing without a voice.
chanMemUsage(c, chan) ==
    IF isVoice(c, c.voice[chan])
    THEN SumBytes(MeasBytes(c.filename), c.measStartIdx + c.chordIdx[chan], c.measEndIdx)
    ELSE 0

\* Composition::getMemUsage(): bytes of what both channels export.
getMemUsage(c) == chanMemUsage(c, "LEFT") + chanMemUsage(c, "RIGHT")

\* setMeasStartIdx storing whatever index it is given.
setMeasStartIdx_unchecked(c, idx) == [c EXCEPT !.measStartIdx = idx]

\* Composition::setMeasStartIdx / setMeasEndIdx: validate and reject, else set.
setMeasStartIdx(c, idx) ==
    IF idx > c.measEndIdx \/ idx >= getNumMeasures(c)
    THEN c
    ELSE [c EXCEPT !.measStartIdx = idx]

setMeasEndIdx(c, idx) ==
    IF idx < c.measStartIdx \/ idx >= getNumMeasures(c)
    THEN c
    ELSE [c EXCEPT !.measEndIdx = idx]

\* Composition::setVoice(chan, voiceStr): a parsed voice or the sentinel; the
\* channel's chord index is left to the caller.
setVoice(c, chan, voiceStr) ==
    IF voiceStr = getNoVoiceStr \/ isVoice(c, voiceStr)
    THEN [c EXCEPT !.voice[chan] = voiceStr]
    ELSE c

\* Composition::setChordIdx(chan, idx): rejected when idx is no chord of the
\* channel's voice in the export window.
setChordIdx(c, chan, idx) ==
    IF idx >= getNumChords(c, c.voice[chan], c.measStartIdx, c.measEndIdx)
    THEN c
    ELSE [c EXCEPT !.chordIdx[chan] = idx]

\* Composition::setBpm / setOctaveAdjust: plain updates.
setBpm(c, bpm) == [c EXCEPT !.bpm = bpm]

setOctaveAdjust(c, octave_adjust) == [c EXCEPT !.octaveAdjust = octave_adjust]

----------------------------------------------------------------------------
(* std::vector and QListWidget helpers                                     *)

push_back(v, e) == Append(v, e)

\* pop_back left out: the vector keeps its last element.
pop_back_forgotten(v) == v

pop_back(v) == SubSeq(v, 1, Len(v) - 1)

\* The last element removed whatever the position asked for.
erase_last(v, i) == SubSeq(v, 1, Len(v) - 1)

\* vector::erase(begin() + i) and QListWidget::takeItem(i), 0-based.
erase(v, i) == SubSeq(v, 1, i) \o SubSeq(v, i + 2, Len(v))

\* The item inserted one row above the row asked for.
insertedRow_same(v, row) == IF row > 0 /\ row - 1 <= Len(v) THEN row - 1 ELSE 0

\* QListWidget::insertItem(row, item), 0-based: Qt clamps the row to
\* 0..count(), and insertedRow is where the item then is.
insertedRow(v, row) == IF row < 0 THEN 0 ELSE IF row > Len(v) THEN Len(v) ELSE row

insertItem(v, row, e) ==
    SubSeq(v, 1, insertedRow(v, row)) \o <<e>> \o SubSeq(v, insertedRow(v, row) + 1, Len(v))

\* An element read outside the vector's bounds is undefined behaviour: the
\* read yields an indeterminate Composition, which Garbage stands for, and a
\* write lands outside the vector.
Garbage ==
    [filename |-> "?", measStartIdx |-> 0, measEndIdx |-> -1,
     voice |-> [LEFT |-> "?", RIGHT |-> "?"], chordIdx |-> [LEFT |-> 0, RIGHT |-> 0],
     bpm |-> 0, octaveAdjust |-> 0]

at(v, i) == IF i \in 0..(Len(v) - 1) THEN v[i + 1] ELSE Garbage

assign(v, i, e) == IF i \in 0..(Len(v) - 1) THEN [v EXCEPT ![i + 1] = e] ELSE v

\* The exchange without the copy: the second assignment reads the slot the
\* first one has overwritten.
swap_noCopy(v, i, j) ==
    assign(assign(v, i, at(v, j)), j, at(assign(v, i, at(v, j)), i))

\* The three assignments that exchange compositions[i] and compositions[j]
\* through the copy `comp` (lines 387-389, 411-413).
swap(v, i, j) ==
    LET comp == at(v, i)
    IN  assign(assign(v, i, at(v, j)), j, comp)

\* QString::split(sep) followed by list[list.size()-1]: the text after the
\* last separator.
RECURSIVE lastPart(_, _)
lastPart(s, sep) ==
    IF \E k \in 1..Len(s) : s[k] = sep
    THEN lastPart(Tail(s), sep)
    ELSE s

\* QString(".musicxml").size()
ExtSize == 9

\* filename.resize(filename.size() - ExtSize); a negative size is taken as 0.
resize(s, n) == IF n <= 0 THEN <<>> ELSE SubSeq(s, 1, n)

\* The display label of a file (lines 186-191).
labelOf(f) ==
    LET noPath == lastPart(lastPart(PathChars(f), "/"), "\\")
    IN  resize(noPath, Len(noPath) - ExtSize)

NULL == -1

\* MainWindow::getSelectedComposition: the position of the selected
\* Composition, NULL for nullptr (with the pop-up).
getSelectedComposition(row, size) ==
    IF row > size \/ row < 0 THEN NULL ELSE row

\* The sum started at the second Composition.
updateMemUsage_skipFirst(comps) ==
    LET RECURSIVE sum(_)
        sum(comp_idx) ==
            IF comp_idx >= Len(comps) THEN 0
            ELSE getMemUsage(comps[comp_idx + 1]) + sum(comp_idx + 1)
    IN  EEPROM_HDR_NUM_BYTES + sum(1)

\* The num_bytes that MainWindow::updateMemUsage computes and displays (a
\* uint32_t; the sums of this model stay far below 2^32).
updateMemUsage(comps) ==
    LET RECURSIVE sum(_)
        sum(comp_idx) ==
            IF comp_idx >= Len(comps) THEN 0
            ELSE getMemUsage(comps[comp_idx + 1]) + sum(comp_idx + 1)
    IN  EEPROM_HDR_NUM_BYTES + sum(0)

----------------------------------------------------------------------------
(* SCSerial (scserial.h, not in the source tree)                           *)

\* SCSerial::open(): NO_ERROR acquires the port exclusively; it cannot succeed
\* while the port is held, and may fail for reasons outside the program.
openResults(held) ==
    IF held THEN {"OPEN_ERROR"} ELSE {"NO_ERROR", "OPEN_ERROR"}

\* What the device may answer to a command: the expected response, another
\* line, or nothing before the timeout.
Responses == {"expected", "mismatch", "timeout"}

\* SCSerial::send(cmd, resp): NO_ERROR only for the expected response.
send(response) ==
    CASE response = "expected" -> "NO_ERROR"
      [] response = "mismatch" -> "RESP_MISMATCH"
      [] OTHER                 -> "RESP_TIMEOUT"

\* Composition::download(serial, offset): all of the payload written, or an error.
DownloadResults == {"NO_ERROR", "DOWNLOAD_ERROR"}

\* ~SCSerial(): the port is closed when the object is destroyed.
SCSerial_destroyed(held) == FALSE

----------------------------------------------------------------------------
Init ==
    /\ compositions = <<>>
    /\ labels = <<>>
    /\ currentRow = -1
    /\ memUsageLabel = -1
    /\ pc = "idle"
    /\ portHeld = FALSE
    /\ num_bytes = 0
    /\ lastOp = [op |-> "none", row |-> -1]
    /\ popup = ""
    /\ sent = <<>>

\* A handler other than play: it starts from the idle event loop, sends nothing
\* to the transport and ends with at most one message box.
handler(op, msg) ==
    /\ pc = "idle"
    /\ lastOp' = [op |-> op, row |-> currentRow]
    /\ popup' = msg
    /\ sent' = <<>>
    /\ num_bytes' = 0
    /\ UNCHANGED <<pc, portHeld>>

invalidSelection == "Invalid Composition selected"

\* on_convertPushButton_clicked with the path of file f in musicXmlPathLineEdit.
tooManyComps(size) == size > MAX_NUM_COMPS

convertPushButton(f) ==
    IF tooManyComps(Len(compositions))
    THEN /\ handler("convert", "Too many Compositions have been added.")
         /\ UNCHANGED <<compositions, labels, currentRow, memUsageLabel>>
    ELSE LET pushed == push_back(compositions, Composition(f))
         IN  IF parse(f) # "NO_ERROR"
             THEN /\ handler("convert", "Failed to parse file")
                  /\ compositions' = pop_back(pushed)
                  /\ UNCHANGED <<labels, currentRow, memUsageLabel>>
             ELSE /\ handler("convert", "")
                  /\ compositions' = pushed
                  /\ labels' = Append(labels, labelOf(f))
                  /\ currentRow' = Len(labels)
                  /\ memUsageLabel' = updateMemUsage(pushed)

\* on_jingleListWidget_clicked: the user clicks row r, which the list widget
\* makes current before the handler refreshes the display.
jingleListWidget_clicked(r) ==
    /\ r \in 0..(Len(labels) - 1)
    /\ handler("click",
               IF getSelectedComposition(r, Len(compositions)) = NULL
               THEN invalidSelection ELSE "")
    /\ currentRow' = r
    /\ UNCHANGED <<compositions, labels, memUsageLabel>>

\* on_delJingleToolButton_clicked.
delJingleToolButton ==
    LET composition == getSelectedComposition(currentRow, Len(compositions))
        comp_idx == currentRow
    IN  IF composition = NULL
        THEN /\ handler("del", invalidSelection)
             /\ UNCHANGED <<compositions, labels, currentRow, memUsageLabel>>
        ELSE /\ handler("del", "")
             /\ compositions' = erase(compositions, comp_idx)
             /\ labels' = erase(labels, comp_idx)
             /\ currentRow' = -1
             /\ memUsageLabel' = updateMemUsage(erase(compositions, comp_idx))

\* on_mvJingleDownToolButton_clicked.
atBottom(comp_idx, size) == comp_idx + 1 >= size

mvJingleDownToolButton ==
    LET composition == getSelectedComposition(currentRow, Len(compositions))
        comp_idx == currentRow
    IN  IF composition = NULL
        THEN /\ handler("mvDown", invalidSelection)
             /\ UNCHANGED <<compositions, labels, currentRow, memUsageLabel>>
        ELSE /\ handler("mvDown", "")
             /\ IF atBottom(comp_idx, Len(compositions))
                THEN UNCHANGED <<compositions, labels, currentRow>>
                ELSE /\ labels' = insertItem(erase(labels, comp_idx), comp_idx + 1,
                                             labels[comp_idx + 1])
                     /\ currentRow' = insertedRow(erase(labels, comp_idx), comp_idx + 1)
                     /\ compositions' = swap(compositions, comp_idx, comp_idx + 1)
             /\ UNCHANGED memUsageLabel

\* on_mvJingleUpToolButton_clicked.
\* The boundary test taken for a 1-based row.
atTop_oneBased(comp_idx) == comp_idx = 1

atTop(comp_idx) == comp_idx = 0

mvJingleUpToolButton ==
    LET composition == getSelectedComposition(currentRow, Len(compositions))
        comp_idx == currentRow
    IN  IF composition = NULL
        THEN /\ handler("mvUp", invalidSelection)
             /\ UNCHANGED <<compositions, labels, currentRow, memUsageLabel>>
        ELSE /\ handler("mvUp", "")
             /\ IF atTop(comp_idx)
                THEN UNCHANGED <<compositions, labels, currentRow>>
                ELSE /\ labels' = insertItem(erase(labels, comp_idx), comp_idx - 1,
                                             labels[comp_idx + 1])
                     /\ currentRow' = insertedRow(erase(labels, comp_idx), comp_idx - 1)
                     /\ compositions' = swap(compositions, comp_idx, comp_idx - 1)
             /\ UNCHANGED memUsageLabel

\* Items of startMeasComboBox / endMeasComboBox (updateCompositionDisplay):
\* one per measure of the selected Composition; -1 stands for "no item".
measComboItems ==
    IF currentRow \in 0..(Len(compositions) - 1)
    THEN -1..(getNumMeasures(compositions[currentRow + 1]) - 1)
    ELSE {-1}

\* on_startMeasComboBox_activated(index).
startMeasComboBox_activated(index) ==
    LET composition == getSelectedComposition(currentRow, Len(compositions))
    IN  /\ IF composition = NULL
           THEN /\ handler("startMeas", invalidSelection)
                /\ UNCHANGED <<compositions, memUsageLabel>>
           ELSE IF index < 0
           THEN /\ handler("startMeas", "Invalid Start Measure selected")
                /\ UNCHANGED <<compositions, memUsageLabel>>
           ELSE LET set == [compositions EXCEPT
                               ![composition + 1] = setMeasStartIdx(@, index)]
                IN  /\ handler("startMeas", "")
                    /\ compositions' = set
                    /\ memUsageLabel' = updateMemUsage(set)
        /\ UNCHANGED <<labels, currentRow>>

\* on_endMeasComboBox_activated(index).
endMeasComboBox_activated(index) ==
    LET composition == getSelectedComposition(currentRow, Len(compositions))
    IN  /\ IF composition = NULL
           THEN /\ handler("endMeas", invalidSelection)
                /\ UNCHANGED <<compositions, memUsageLabel>>
           ELSE IF index < 0
           THEN /\ handler("endMeas", "Invalid Start Measure selected")
                /\ UNCHANGED <<compositions, memUsageLabel>>
           ELSE LET set == [compositions EXCEPT
                               ![composition + 1] = setMeasEndIdx(@, index)]
                IN  /\ handler("endMeas", "")
                    /\ compositions' = set
                    /\ memUsageLabel' = updateMemUsage(set)
        /\ UNCHANGED <<labels, currentRow>>

----------------------------------------------------------------------------
(* Voice, chord, tempo and octave handlers                                 *)

\* The setter applied to the first Composition whatever the selection.
setSelected_first(comps, composition, c) == assign(comps, 0, c)

\* The handler's `composition` pointer applied to the vector: the selected
\* Composition replaced by what the setter leaves.
setSelected(comps, composition, c) == assign(comps, composition, c)

\* Items of chanSourceLeftComboBox / chanSourceRightComboBox
\* (updateCompositionDisplay): the sentinel and the voices of the selected
\* Composition.
voiceComboItems ==
    IF currentRow \in 0..(Len(compositions) - 1)
    THEN {getNoVoiceStr} \cup
         {getVoiceStrs(compositions[currentRow + 1])[k] :
              k \in 1..Len(getVoiceStrs(compositions[currentRow + 1]))}
    ELSE {getNoVoiceStr}

\* Items of chanChordLeftComboBox / chanChordRightComboBox
\* (updateChordComboBox): one per chord of the channel's voice in the export
\* window of the selected Composition; with nothing selected the box is empty
\* and -1 stands for "no item".
chordComboItems(chan) ==
    IF currentRow \in 0..(Len(compositions) - 1)
    THEN LET c == compositions[currentRow + 1]
         IN  0..(getNumChords(c, c.voice[chan], c.measStartIdx, c.measEndIdx) - 1)
    ELSE {-1}

\* on_chanSourceLeftComboBox_activated / on_chanSourceRightComboBox_activated.
chanSourceComboBox_activated(op, chan, voiceStr) ==
    LET composition == getSelectedComposition(currentRow, Len(compositions))
    IN  /\ IF composition = NULL
           THEN /\ handler(op, invalidSelection)
                /\ UNCHANGED <<compositions, memUsageLabel>>
           ELSE LET set == setSelected(compositions, composition,
                               setVoice(at(compositions, composition), chan, voiceStr))
                IN  /\ handler(op, "")
                    /\ compositions' = set
                    /\ memUsageLabel' = updateMemUsage(set)
        /\ UNCHANGED <<labels, currentRow>>

chanSourceLeftComboBox_activated(voiceStr) ==
    chanSourceComboBox_activated("voiceLeft", "LEFT", voiceStr)

chanSourceRightComboBox_activated(voiceStr) ==
    chanSourceComboBox_activated("voiceRight", "RIGHT", voiceStr)

\* on_chanChordLeftComboBox_activated / on_chanChordRightComboBox_activated:
\* the chord index is set and nothing is refreshed.
chanChordComboBox_activated(op, chan, index, msg) ==
    LET composition == getSelectedComposition(currentRow, Len(compositions))
    IN  /\ IF composition = NULL
           THEN /\ handler(op, invalidSelection)
                /\ UNCHANGED compositions
           ELSE IF index < 0
           THEN /\ handler(op, msg)
                /\ UNCHANGED compositions
           ELSE /\ handler(op, "")
                /\ compositions' = setSelected(compositions, composition,
                                      setChordIdx(at(compositions, composition), chan, index))
        /\ UNCHANGED <<labels, currentRow, memUsageLabel>>

chanChordLeftComboBox_activated(index) ==
    chanChordComboBox_activated("chordLeft", "LEFT", index,
                                "Invalid Left Chord Index selected")

chanChordRightComboBox_activated(index) ==
    chanChordComboBox_activated("chordRight", "RIGHT", index,
                                "Invalid Right Chord Index selected")

\* Value of a decimal digit, -1 for any other character.
digit(ch) ==
    CASE ch = "0" -> 0 [] ch = "1" -> 1 [] ch = "2" -> 2 [] ch = "3" -> 3
      [] ch = "4" -> 4 [] ch = "5" -> 5 [] ch = "6" -> 6 [] ch = "7" -> 7
      [] ch = "8" -> 8 [] ch = "9" -> 9 [] OTHER -> -1

RECURSIVE digits(_, _)
digits(text, acc) ==
    IF text = <<>> THEN acc
    ELSE IF digit(Head(text)) < 0 THEN -1
    ELSE digits(Tail(text), 10 * acc + digit(Head(text)))

\* QString::toUInt(): the number the text spells, 0 when it spells none.
toUInt(text) == IF text = <<>> \/ digits(text, 0) < 0 THEN 0 ELSE digits(text, 0)

\* QString::toFloat() for texts of the form i.f, in hundredths; 0 when the
\* text spells no number.
toFloat(text) ==
    LET dots == {k \in 1..Len(text) : text[k] = "."}
    IN  IF dots = {} THEN 100 * toUInt(text)
        ELSE LET k == CHOOSE d \in dots : \A e \in dots : d <= e
                 whole == SubSeq(text, 1, k - 1)
                 frac == SubSeq(text, k + 1, Len(text))
             IN  IF digits(whole, 0) < 0 \/ digits(frac, 0) < 0 \/ Len(text) = 1
                 THEN 0
                 ELSE 100 * digits(whole, 0)
                      + (IF Len(frac) = 0 THEN 0
                         ELSE IF Len(frac) = 1 THEN 10 * digit(frac[1])
                         ELSE 10 * digit(frac[1]) + digit(frac[2]))

\* Texts typed into bpmLineEdit and octaveAdjustLineEdit.
BpmTexts == {<<"9", "0">>}

OctaveTexts == {<<"0", ".", "5">>}

\* on_bpmLineEdit_editingFinished with text in bpmLineEdit.
bpmLineEdit_editingFinished(text) ==
    LET composition == getSelectedComposition(currentRow, Len(compositions))
    IN  /\ IF composition = NULL
           THEN /\ handler("bpm", invalidSelection)
                /\ UNCHANGED compositions
           ELSE /\ handler("bpm", "")
                /\ compositions' = setSelected(compositions, composition,
                                      setBpm(at(compositions, composition), toUInt(text)))
        /\ UNCHANGED <<labels, currentRow, memUsageLabel>>

\* on_octaveAdjustLineEdit_editingFinished with text in octaveAdjustLineEdit.
octaveAdjustLineEdit_editingFinished(text) ==
    LET composition == getSelectedComposition(currentRow, Len(compositions))
    IN  /\ IF composition = NULL
           THEN /\ handler("octave", invalidSelection)
                /\ UNCHANGED compositions
           ELSE /\ handler("octave", "")
                /\ compositions' = setSelected(compositions, composition,
                                      setOctaveAdjust(at(compositions, composition),
                                                      toFloat(text)))
        /\ UNCHANGED <<labels, currentRow, memUsageLabel>>

----------------------------------------------------------------------------
(* on_playJinglePushButton_clicked                                         *)

\* `serial` is a local object of the handler (line 89): every return
\* destroys it.
\* `serial` outliving the handler: a return leaves the port as it is.
serialAtReturn_leaked(held) == held

serialAtReturn(held) == SCSerial_destroyed(held)

\* A return of the play handler, after message box msg ("" for none).
return(msg) ==
    /\ pc' = "idle"
    /\ popup' = msg
    /\ portHeld' = serialAtReturn(portHeld)

\* The capacity test without the header's bytes.
tooLarge_noHeader(n) == n - EEPROM_HDR_NUM_BYTES > MAX_EEPROM_BYTES

\* The capacity test refusing a payload that exactly fills the EEPROM.
tooLarge_atCapacity(n) == n >= MAX_EEPROM_BYTES

\* The capacity test of line 114.
tooLarge(n) == n > MAX_EEPROM_BYTES

\* The handshake with the play command ahead of the download.
handshakeNext_playFirst(step, failed) ==
    CASE step = "clear"    -> IF failed THEN "idle" ELSE "play"
      [] step = "play"     -> IF failed THEN "idle" ELSE "download"
      [] OTHER             -> "idle"

\* The handshake with the results of the transport calls ignored.
handshakeNext_unchecked(step, failed) ==
    CASE step = "clear"    -> "download"
      [] step = "download" -> "play"
      [] OTHER             -> "idle"

\* The handshake repeating a transport call that failed.
handshakeNext_retry(step, failed) ==
    CASE failed            -> step
      [] step = "clear"    -> "download"
      [] step = "download" -> "play"
      [] OTHER             -> "idle"

\* The handshake without the download.
handshakeNext_noDownload(step, failed) ==
    CASE step = "clear"    -> IF failed THEN "idle" ELSE "play"
      [] OTHER             -> "idle"

\* Control flow of the handshake (lines 123-147): where the handler goes after
\* the transport call made at `step`; "idle" is a return.
handshakeNext(step, failed) ==
    CASE step = "clear"    -> IF failed THEN "idle" ELSE "download"
      [] step = "download" -> IF failed THEN "idle" ELSE "play"
      [] OTHER           -> "idle"

handshakeMsg(step, failed) ==
    CASE ~failed         -> ""
      [] step = "clear"  -> "Failed to clear Jingle Data."
      [] step = "download" -> "Cannot download"
      [] OTHER           -> "Failed to send play command."

handshakeStep(step, failed) ==
    IF handshakeNext(step, failed) = "idle"
    THEN return(handshakeMsg(step, failed))
    ELSE /\ pc' = handshakeNext(step, failed)
         /\ UNCHANGED <<popup, portHeld>>

\* The Composition the handler's `composition` pointer refers to (line 96);
\* nothing changes the selection while the handler runs.
playComposition ==
    compositions[getSelectedComposition(currentRow, Len(compositions)) + 1]

\* The command lines of the handshake (lines 123, 141).
clearCmd == "jingle clear\n"

playCmd == "jingle play 0\n"

\* The offset given to Composition::download (line 131).
downloadOffset == 0

setVars == <<compositions, labels, currentRow, memUsageLabel>>

\* Lines 87-99: the button is clicked; nothing to play or nothing selected.
playJinglePushButton ==
    /\ pc = "idle"
    /\ lastOp' = [op |-> "play", row |-> currentRow]
    /\ sent' = <<>>
    /\ num_bytes' = 0
    /\ IF Len(compositions) = 0
       THEN return("No Compositions to Play")
       ELSE IF getSelectedComposition(currentRow, Len(compositions)) = NULL
       THEN return(invalidSelection)
       ELSE /\ pc' = "open"
            /\ popup' = ""
            /\ UNCHANGED portHeld
    /\ UNCHANGED setVars

\* The test of open()'s result with its result disregarded.
openFailed_ignored(serial_err_code) == FALSE

\* The test of open()'s result (line 102).
openFailed(serial_err_code) == serial_err_code # "NO_ERROR"

\* Lines 101-108: serial.open(); the port is held when open() said NO_ERROR.
playOpen ==
    /\ pc = "open"
    /\ \E serial_err_code \in openResults(portHeld) :
          IF openFailed(serial_err_code)
          THEN return("Cannot open")
          ELSE /\ pc' = "check"
               /\ portHeld' = (serial_err_code = "NO_ERROR")
               /\ UNCHANGED popup
    /\ UNCHANGED <<num_bytes, lastOp, sent>>
    /\ UNCHANGED setVars

\* Lines 110-121: the memory check.
playCheckMem ==
    /\ pc = "check"
    /\ num_bytes' = EEPROM_HDR_NUM_BYTES + getMemUsage(playComposition)
    /\ IF tooLarge(num_bytes')
       THEN return("Jingle is too large")
       ELSE /\ pc' = "clear"
            /\ UNCHANGED <<popup, portHeld>>
    /\ UNCHANGED <<lastOp, sent>>
    /\ UNCHANGED setVars

\* Lines 123-129: "jingle clear\n" and the wait for its response.
playClear ==
    /\ pc = "clear"
    /\ \E response \in Responses :
          /\ sent' = Append(sent, [cmd |-> clearCmd, err |-> send(response),
                                   jingles |-> <<>>])
          /\ handshakeStep("clear", send(response) # "NO_ERROR")
    /\ UNCHANGED <<num_bytes, lastOp>>
    /\ UNCHANGED setVars

\* Lines 131-138: composition->download(serial, 0).
playDownload ==
    /\ pc = "download"
    /\ \E comp_err_code \in DownloadResults :
          /\ sent' = Append(sent, [cmd |-> "download", err |-> comp_err_code,
                                   jingles |-> <<[offset |-> downloadOffset,
                                                  comp |-> playComposition]>>])
          /\ handshakeStep("download", comp_err_code # "NO_ERROR")
    /\ UNCHANGED <<num_bytes, lastOp>>
    /\ UNCHANGED setVars

\* Lines 140-147: "jingle play 0\n" and the wait for its response.
playSendPlay ==
    /\ pc = "play"
    /\ \E response \in Responses :
          /\ sent' = Append(sent, [cmd |-> playCmd, err |-> send(response),
                                   jingles |-> <<>>])
          /\ handshakeStep("play", send(response) # "NO_ERROR")
    /\ UNCHANGED <<num_bytes, lastOp>>
    /\ UNCHANGED setVars

Next ==
    \/ \E f \in FileIds : convertPushButton(f)
    \/ \E r \in 0..MAX_NUM_COMPS : jingleListWidget_clicked(r)
    \/ delJingleToolButton
    \/ mvJingleDownToolButton
    \/ mvJingleUpToolButton
    \/ \E index \in measComboItems : startMeasComboBox_activated(index)
    \/ \E index \in measComboItems : endMeasComboBox_activated(index)
    \/ playJinglePushButton
    \/ playOpen
    \/ playCheckMem
    \/ playClear
    \/ playDownload
    \/ playSendPlay

Spec == Init /\ [][Next]_vars

\* The window after two files were added (convert a, convert b): the state
\* from which the editing handlers are explored.  The chord box of the right
\* channel, the twin of the left one, is explored in SpecDel.
InitEdit ==
    /\ compositions = <<Composition("a"), Composition("b")>>
    /\ labels = <<labelOf("a"), labelOf("b")>>
    /\ currentRow = 1
    /\ memUsageLabel = updateMemUsage(<<Composition("a"), Composition("b")>>)
    /\ pc = "idle"
    /\ portHeld = FALSE
    /\ num_bytes = 0
    /\ lastOp = [op |-> "convert", row |-> 0]
    /\ popup = ""
    /\ sent = <<>>

NextEdit ==
    \/ \E r \in 0..MAX_NUM_COMPS : jingleListWidget_clicked(r)
    \/ mvJingleDownToolButton
    \/ mvJingleUpToolButton
    \/ \E index \in measComboItems : startMeasComboBox_activated(index)
    \/ \E index \in measComboItems : endMeasComboBox_activated(index)
    \/ \E voiceStr \in voiceComboItems : chanSourceLeftComboBox_activated(voiceStr)
    \/ \E voiceStr \in voiceComboItems : chanSourceRightComboBox_activated(voiceStr)
    \/ \E index \in chordComboItems("LEFT") : chanChordLeftComboBox_activated(index)
    \/ \E text \in BpmTexts : bpmLineEdit_editingFinished(text)
    \/ \E text \in OctaveTexts : octaveAdjustLineEdit_editingFinished(text)

SpecEdit == InitEdit /\ [][NextEdit]_vars

\* The window after the one-measure file was added twice (convert b, convert
\* b): the state from which delete is explored together with every other
\* handler that works on the selection.
InitDel ==
    /\ compositions = <<Composition("b"), Composition("b")>>
    /\ labels = <<labelOf("b"), labelOf("b")>>
    /\ currentRow = 1
    /\ memUsageLabel = updateMemUsage(<<Composition("b"), Composition("b")>>)
    /\ pc = "idle"
    /\ portHeld = FALSE
    /\ num_bytes = 0
    /\ lastOp = [op |-> "convert", row |-> 0]
    /\ popup = ""
    /\ sent = <<>>

NextDel ==
    \/ NextEdit
    \/ \E index \in chordComboItems("RIGHT") : chanChordRightComboBox_activated(index)
    \/ delJingleToolButton
    \/ playJinglePushButton
    \/ playOpen
    \/ playCheckMem
    \/ playClear
    \/ playDownload
    \/ playSendPlay

SpecDel == InitDel /\ [][NextDel]_vars

\* getSelectedComposition() as a function of the row the list widget reports:
\* it is applied to each row value of Rows with the set as it stands, and the
\* row given and the outcome (the message box when the result is nullptr) are
\* recorded.
Rows == -2..(MAX_NUM_COMPS + 2)

getSelectedComposition_applied(row) ==
    /\ pc = "idle"
    /\ lastOp' = [op |-> "getSelected", row |-> row]
    /\ popup' = IF getSelectedComposition(row, Len(compositions)) = NULL
                THEN invalidSelection ELSE ""
    /\ sent' = <<>>
    /\ num_bytes' = 0
    /\ UNCHANGED <<pc, portHeld>>
    /\ UNCHANGED setVars

NextSel ==
    \/ Next
    \/ \E row \in Rows : getSelectedComposition_applied(row)

SpecSel == Init /\ [][NextSel]_vars

----------------------------------------------------------------------------
(* Properties                                                              *)

HandshakeOrder == <<clearCmd, "download", playCmd>>

failedAt(i) == sent[i].err # "NO_ERROR"

\* C1: the commands of a download-and-play run reach the transport in the
\* order clear, download at offset 0, play; each is sent only after the one
\* before it succeeded.
C1_HandshakeOrder ==
    \A i \in 1..Len(sent) :
        /\ i <= Len(HandshakeOrder)
        /\ sent[i].cmd = HandshakeOrder[i]
        /\ i > 1 => ~failedAt(i - 1)
        /\ \A k \in 1..Len(sent[i].jingles) : sent[i].jingles[k].offset = 0

C1_Witness ==
    /\ pc = "idle"
    /\ popup = ""
    /\ [i \in 1..Len(sent) |-> sent[i].cmd] = HandshakeOrder

\* C2: a failed step is the last thing the run does: after a failed clear
\* neither the download nor play is attempted, after a failed download play
\* is not sent.
C2_ShortCircuit ==
    \A i \in 1..Len(sent) :
        failedAt(i) =>
            /\ pc = "idle"
            /\ popup # ""
            /\ \A j \in 1..Len(sent) : j <= i

C2_Witness ==
    /\ lastOp.op = "play"
    /\ popup = "Failed to clear Jingle Data."
    /\ Len(sent) = 1
    /\ sent[1].cmd = clearCmd
    /\ sent[1].err = "RESP_MISMATCH"

\* A step of the play handler made with a Composition selected.
playStep == pc # "idle" \/ pc' # "idle"

\* C3, as stated: whenever the header plus the usage of ALL compositions
\* exceeds MAX_EEPROM_BYTES, download-and-play sends nothing and leaves the
\* set unchanged.
C3_AggregateBudget ==
    [][playStep =>
         /\ UNCHANGED setVars
         /\ updateMemUsage(compositions) > MAX_EEPROM_BYTES => sent' = <<>>]_vars

\* C3, amended: whenever the header plus the usage of the SELECTED composition
\* exceeds MAX_EEPROM_BYTES, download-and-play sends nothing and leaves the
\* set unchanged.
C3_SelectedBudget ==
    [][playStep =>
         /\ UNCHANGED setVars
         /\ EEPROM_HDR_NUM_BYTES + getMemUsage(playComposition) > MAX_EEPROM_BYTES
                => sent' = <<>>]_vars

C3_Witness ==
    /\ lastOp.op = "play"
    /\ pc = "idle"
    /\ popup = "Jingle is too large"
    /\ Len(compositions) > 1
    /\ sent = <<>>

\* C4: a selected composition with header + usage > MAX_EEPROM_BYTES ends the
\* run with the capacity error and nothing sent; with header + usage =
\* MAX_EEPROM_BYTES the run goes on to the handshake.
C4_Capacity ==
    /\ num_bytes # 0 => num_bytes = EEPROM_HDR_NUM_BYTES + getMemUsage(playComposition)
    /\ num_bytes > MAX_EEPROM_BYTES =>
           /\ pc = "idle"
           /\ popup = "Jingle is too large"
           /\ sent = <<>>
    /\ (num_bytes # 0 /\ num_bytes <= MAX_EEPROM_BYTES) =>
           /\ popup # "Jingle is too large"
           /\ pc = "idle" => sent # <<>>
    /\ popup = "Jingle is too large" => num_bytes > MAX_EEPROM_BYTES

C4_Witness ==
    /\ num_bytes = MAX_EEPROM_BYTES
    /\ pc = "idle"
    /\ sent # <<>>

C6_NoRetry ==
    \A i, j \in 1..Len(sent) : sent[i].cmd = sent[j].cmd => i = j

C6_Witness ==
    /\ pc = "idle"
    /\ Len(sent) = 3
    /\ sent[3].cmd = playCmd
    /\ sent[3].err = "RESP_TIMEOUT"
    /\ popup = "Failed to send play command."

\* C7: whenever play is sent, the run has before it one successful clear and,
\* after that, exactly one successful download, of the selected composition at
\* offset 0.
C7_PlaysSelected ==
    \A i \in 1..Len(sent) :
        sent[i].cmd = playCmd =>
            /\ i = 3
            /\ sent[1].cmd = clearCmd /\ ~failedAt(1)
            /\ sent[2].cmd = "download" /\ ~failedAt(2)
            /\ sent[2].jingles = <<[offset |-> 0, comp |-> at(compositions, currentRow)]>>

C7_Witness ==
    /\ Len(sent) = 3
    /\ sent[3].cmd = playCmd
    /\ currentRow = 1
    /\ compositions[1] # compositions[2]

\* C8: the number of compositions never exceeds MAX_NUM_COMPS.
C8_AtMostMaxComps == Len(compositions) <= MAX_NUM_COMPS

\* C9: a parse-and-add whose parse() fails leaves the compositions, their
\* order and state, the labels and the current selection as they were.
C9_FailedParseNoChange ==
    [][(lastOp'.op = "convert" /\ popup' = "Failed to parse file")
           => UNCHANGED <<compositions, labels, currentRow>>]_vars

C9_Witness ==
    /\ lastOp.op = "convert"
    /\ popup = "Failed to parse file"
    /\ Len(compositions) = 2
    /\ currentRow = 0
    /\ compositions[1].measStartIdx = 1

\* C10: moveUp with row 0 selected and moveDown with the last row selected
\* change neither the compositions, nor the labels, nor the selection.
C10_BoundaryMoveNoOp ==
    [][(\/ lastOp'.op = "mvUp" /\ currentRow = 0
        \/ lastOp'.op = "mvDown" /\ currentRow = Len(compositions) - 1)
           => UNCHANGED <<compositions, labels, currentRow>>]_vars

C10_Witness ==
    /\ Len(compositions) > 1
    /\ \/ lastOp = [op |-> "mvUp", row |-> 0] /\ currentRow = 0
       \/ lastOp = [op |-> "mvDown", row |-> Len(compositions) - 1]
              /\ currentRow = Len(compositions) - 1

\* A click on mvJingleDownToolButton / mvJingleUpToolButton away from the
\* boundary, seen as a step.
movedDown == lastOp'.op = "mvDown" /\ currentRow \in 0..(Len(compositions) - 2)

movedUp == lastOp'.op = "mvUp" /\ currentRow \in 1..(Len(compositions) - 1)

\* C11: away from the boundaries a move exchanges the selected composition
\* with its neighbour and leaves every other position and every composition's
\* own state as it was; moving the moved item back restores the sequence.
C11_AdjacentSwap ==
    [][/\ movedDown =>
            /\ Len(compositions') = Len(compositions)
            /\ \A k \in 0..(Len(compositions) - 1) :
                   at(compositions', k) =
                       IF k = currentRow THEN at(compositions, currentRow + 1)
                       ELSE IF k = currentRow + 1 THEN at(compositions, currentRow)
                       ELSE at(compositions, k)
            /\ currentRow' = currentRow + 1
            /\ swap(compositions', currentRow', currentRow' - 1) = compositions
       /\ movedUp =>
            /\ Len(compositions') = Len(compositions)
            /\ \A k \in 0..(Len(compositions) - 1) :
                   at(compositions', k) =
                       IF k = currentRow THEN at(compositions, currentRow - 1)
                       ELSE IF k = currentRow - 1 THEN at(compositions, currentRow)
                       ELSE at(compositions, k)
            /\ currentRow' = currentRow - 1
            /\ swap(compositions', currentRow', currentRow' + 1) = compositions]_vars

C11_Witness ==
    /\ lastOp = [op |-> "mvDown", row |-> 0]
    /\ currentRow = 1
    /\ Len(compositions) = 3
    /\ compositions[1] # compositions[2]
    /\ compositions[2] # compositions[3]
    /\ compositions[2].measStartIdx = 1

\* The handlers that change what is exported: add, delete and the selection
\* and transform edits.
mutationOps ==
    {"convert", "del", "startMeas", "endMeas", "voiceLeft", "voiceRight",
     "chordLeft", "chordRight", "bpm", "octave"}

\* C12: after a set-window, set-voice, set-chord, set-bpm or set-octave (or
\* an add or delete) has completed, the memory usage shown equals
\* EEPROM_HDR_NUM_BYTES plus the sum of getMemUsage() over the compositions.
C12_MemUsageFresh ==
    (lastOp.op \in mutationOps /\ popup = "")
        => memUsageLabel = updateMemUsage(compositions)

\* The sum of getMemUsage() over the compositions, one term per distinct
\* Composition value times the number of positions holding it.
totalByValue(comps) ==
    LET values == {comps[k] : k \in 1..Len(comps)}
        RECURSIVE sumValues(_)
        sumValues(vs) ==
            IF vs = {} THEN 0
            ELSE LET v == CHOOSE w \in vs : TRUE
                 IN  getMemUsage(v) * Cardinality({k \in 1..Len(comps) : comps[k] = v})
                     + sumValues(vs \ {v})
    IN  EEPROM_HDR_NUM_BYTES + sumValues(values)

\* C13: the total is EEPROM_HDR_NUM_BYTES plus the sum of getMemUsage() over
\* all compositions whatever their order, and no moveUp or moveDown changes it.
C13_TotalOrderIndependent ==
    [][/\ updateMemUsage(compositions') = totalByValue(compositions')
       /\ lastOp'.op \in {"mvUp", "mvDown"}
              => updateMemUsage(compositions') = updateMemUsage(compositions)]_vars

C13_Witness ==
    /\ lastOp = [op |-> "mvDown", row |-> 0]
    /\ currentRow = 1
    /\ Len(compositions) = 3
    /\ getMemUsage(compositions[1]) # getMemUsage(compositions[2])
    /\ getMemUsage(compositions[2]) # getMemUsage(compositions[3])
    /\ memUsageLabel = updateMemUsage(compositions)

\* C14: after any sequence of clicks on the start and end measure boxes, every
\* composition's export window satisfies measStartIdx <= measEndIdx <
\* numMeasures.
C14_WindowValid ==
    \A k \in 1..Len(compositions) :
        /\ 0 <= compositions[k].measStartIdx
        /\ compositions[k].measStartIdx <= compositions[k].measEndIdx
        /\ compositions[k].measEndIdx < getNumMeasures(compositions[k])

C14_Witness ==
    /\ lastOp.op = "endMeas"
    /\ popup = ""
    /\ lastOp.row = currentRow
    /\ currentRow \in 0..(Len(compositions) - 1)
    /\ at(compositions, currentRow).measStartIdx = 1
    /\ at(compositions, currentRow).measEndIdx = 1

\* C15: after any sequence of set-window, set-voice and set-chord operations,
\* every channel with a voice selected holds a chord index idx with
\* 0 <= idx < getNumChords(voice, measStartIdx, measEndIdx).
C15_ChordIdxInRange ==
    \A k \in 1..Len(compositions) : \A chan \in Channels :
        LET c == compositions[k]
        IN  c.voice[chan] # getNoVoiceStr
                => /\ 0 <= c.chordIdx[chan]
                   /\ c.chordIdx[chan] <
                          getNumChords(c, c.voice[chan], c.measStartIdx, c.measEndIdx)

\* C16: for every row r and every number n of compositions,
\* getSelectedComposition returns a non-null pointer only when 0 <= r < n
\* (and the pointer is then to the composition at position r); otherwise it
\* returns nullptr with the 'Invalid Composition selected' message.
C16_NonNullOnlyInRange ==
    lastOp.op = "getSelected"
        => /\ popup = "" => lastOp.row \in 0..(Len(compositions) - 1)
           /\ popup # "" => /\ popup = invalidSelection
                            /\ lastOp.row \notin 0..(Len(compositions) - 1)

\* The handlers that work on the selected composition or on the device.
selectionOps ==
    {"del", "mvDown", "mvUp", "startMeas", "endMeas", "voiceLeft", "voiceRight",
     "chordLeft", "chordRight", "bpm", "octave", "play"}

\* C17: a delete removes exactly the selected composition, the others keeping
\* their order and state, and leaves nothing selected; with nothing selected
\* every edit, move, delete and play changes no composition and sends nothing
\* to the device.
C17_DeleteClearsSelection ==
    [][/\ (lastOp'.op = "del" /\ currentRow \in 0..(Len(compositions) - 1))
            => /\ Len(compositions') = Len(compositions) - 1
               /\ \A k \in 0..(Len(compositions') - 1) :
                      at(compositions', k) =
                          IF k < currentRow THEN at(compositions, k)
                          ELSE at(compositions, k + 1)
               /\ currentRow' = -1
       /\ (currentRow = -1 /\ lastOp'.op \in selectionOps)
            => /\ compositions' = compositions
               /\ currentRow' = -1
               /\ sent' = <<>>
               /\ pc' = "idle"
               /\ popup' = invalidSelection \/ popup' = "No Compositions to Play"]_vars

C17_Witness ==
    /\ lastOp = [op |-> "bpm", row |-> -1]
    /\ popup = invalidSelection
    /\ currentRow = -1
    /\ Len(compositions) = 1
    /\ compositions[1].octaveAdjust # NoOctaveAdjust
    /\ compositions[1].bpm = ScoreBpm
    /\ sent = <<>>

\* C18: after any sequence of adds (successful or failed), deletes and moves,
\* the labels and the compositions have the same length, the label at row i
\* is the label of the composition at position i, and the current row is -1
\* or a valid index into the compositions.
C18_LockStep ==
    /\ Len(labels) = Len(compositions)
    /\ \A i \in 1..Len(compositions) : labels[i] = labelOf(compositions[i].filename)
    /\ currentRow = -1 \/ currentRow \in 0..(Len(compositions) - 1)

C18_Witness ==
    /\ lastOp = [op |-> "mvUp", row |-> 2]
    /\ currentRow = 1
    /\ Len(compositions) = 3
    /\ labels = <<labelOf("a"), labelOf("b"), labelOf("a")>>
    /\ compositions[3].measStartIdx = 1

\* C19: a command is written to the transport only while the port is held,
\* that is after open() returned NO_ERROR in the same run of the play handler;
\* open() is reached only with a non-empty set and a valid selection; a run
\* ended by an empty set, an invalid selection or a failed open() has sent
\* nothing.
C19_SendOnlyAfterOpen ==
    /\ [][Len(sent') > Len(sent)
              => /\ portHeld
                 /\ lastOp.op = "play"
                 /\ pc \in {"clear", "download", "play"}]_vars
    /\ [](portHeld => pc \in {"check", "clear", "download", "play"})
    /\ [](pc # "idle" => /\ Len(compositions) > 0
                         /\ currentRow \in 0..(Len(compositions) - 1))
    /\ []((/\ lastOp.op = "play"
           /\ pc = "idle"
           /\ popup \in {"No Compositions to Play", invalidSelection, "Cannot open"})
              => sent = <<>>)

C19_Witness ==
    /\ lastOp.op = "play"
    /\ pc = "download"
    /\ portHeld
    /\ Len(sent) = 1
    /\ sent[1].cmd = clearCmd

\* The selection and transform edits.
editOps ==
    {"startMeas", "endMeas", "voiceLeft", "voiceRight", "chordLeft", "chordRight",
     "bpm", "octave"}

\* C20: a selection or transform edit changes at most the selected
\* composition: every other composition, the order of the set (its file names
\* and labels, position by position) and the current row stay as they were;
\* a move away from the boundary keeps the same composition selected, the
\* current row following it to idx + 1 resp. idx - 1.
C20_EditsTouchSelectedOnly ==
    [][/\ lastOp'.op \in editOps
            => /\ Len(compositions') = Len(compositions)
               /\ \A k \in 0..(Len(compositions) - 1) :
                      /\ k # currentRow => at(compositions', k) = at(compositions, k)
                      /\ at(compositions', k).filename = at(compositions, k).filename
               /\ labels' = labels
               /\ currentRow' = currentRow
       /\ (movedDown \/ movedUp)
            => /\ currentRow' = IF movedDown THEN currentRow + 1 ELSE currentRow - 1
               /\ at(compositions', currentRow') = at(compositions, currentRow)
               /\ at(labels', currentRow') = at(labels, currentRow)]_vars

C20_Witness ==
    /\ lastOp = [op |-> "chordLeft", row |-> 1]
    /\ popup = ""
    /\ currentRow = 1
    /\ compositions[2].filename = "a"
    /\ compositions[2].chordIdx["LEFT"] = 1
    /\ compositions[2].bpm # ScoreBpm
    /\ compositions[1] = Composition("b")

====
